---------------------------- MODULE Spec2Model ----------------------------
(***************************************************************************)
(* A model of scripts/screenshot.py: the start-up checks, the construction *)
(* of sites_dict, the capture loop driving screenshot_page, and the        *)
(* Markdown emitter.                                                       *)
(*                                                                         *)
(* Python strings whose characters matter (names, wait values) are         *)
(* sequences of one-character strings.  A path is a sequence of segments,  *)
(* each segment a sequence of strings: a literal segment holds one string  *)
(* (<<"screenshots">>), a sanitized name holds its characters.             *)
(***************************************************************************)
EXTENDS Integers, Sequences, FiniteSets, TLC

VARIABLES
    \* ---- the script (specification Spec) ----
    pc,                 \* position in the script
    env,                \* os.environ: variable name -> value (a string of chars)
    argv,               \* sys.argv
    exit_code,          \* "running", "1" (sys.exit(1)), "0" (ran off the end), "exception"
    exception,          \* the exception that ended the run, or None
    ci,                 \* CI_SYSTEM, CI_COMMIT, CI_BUILD_ID, CI_BUILD_URL
    loaded_config,      \* the "sites" mapping of the YAML file, in file order
    sites_n2id,         \* site name -> id
    elements_n2id,      \* element name -> id
    sites_dict,         \* site name -> list of element names (insertion ordered)
    api_calls,          \* the remote API calls made so far
    driver,             \* the browser: state, window size, implicit wait
    dirs,               \* directories that exist
    files,              \* files that exist, with their content
    opens,              \* paths opened for writing by the emitter
    captures,           \* screenshots taken: output path and window size
    markdown_index,     \* list of site records
    markdown_site_info, \* the site record being filled
    markdown_element_info, \* the element record being filled
    interfaces_unsorted, \* the interface listing of the current element, as the API gave it
    interfaces_cache,   \* the latest non-empty listing, sorted by name
    si, ei, page, ii,   \* loop positions: site, element, element page, interface
    mi, me,             \* emitter positions: site record, element record
    \* ---- one call of screenshot_page (specification SpecPage) ----
    p_pc, p_args, p_dom, p_res,
    \* ---- the CI detection and one element README (specification SpecReadme) ----
    r_pc, r_env, r_element, r_ci, r_md,
    \* ---- sanitize_filename applied once and again (specification SpecSanitize) ----
    f_pc, f_in, f_out, f_again

scriptVars == <<pc, env, argv, exit_code, exception, ci, loaded_config, sites_n2id,
                elements_n2id, sites_dict, api_calls, driver, dirs, files, opens,
                captures, markdown_index, markdown_site_info,
                markdown_element_info, interfaces_unsorted, interfaces_cache, si, ei, page,
                ii, mi, me>>
pageVars == <<p_pc, p_args, p_dom, p_res>>
readmeVars == <<r_pc, r_env, r_element, r_ci, r_md>>
sanitizeVars == <<f_pc, f_in, f_out, f_again>>
harnessVars == <<pageVars, readmeVars, sanitizeVars>>
vars == <<scriptVars, harnessVars>>

-----------------------------------------------------------------------------
(* Bounds of the model *)

MaxSites == 2        \* sites in a configuration file
MaxElems == 2        \* elements under one site
MaxIfaces == 2       \* interfaces the API lists for one element
MaxValLen == 2       \* characters of a waitfor_value
MaxNameLen == 3      \* characters of a name handed to sanitize_filename

(* Program constants *)

DEFAULT_IMPLICIT_WAIT == 25
DefaultLoadWait == 15
DefaultTweakDelay == 1
MapTweakDelay == 8
StaticRoutesLoadWait == 60
NormalHeight == 1080
TallHeight == 2160
WindowWidth == 1920

None == "None"

-----------------------------------------------------------------------------
(* Generic helpers *)

Range(s) == {s[i] : i \in 1..Len(s)}

RECURSIVE SeqsUpTo(_, _)
SeqsUpTo(S, n) ==
    IF n = 0 THEN {<<>>}
    ELSE LET shorter == SeqsUpTo(S, n - 1)
         IN  shorter \cup {Append(s, x) : s \in {t \in shorter : Len(t) = n - 1}, x \in S}

Injective(s) == \A i, j \in 1..Len(s) : s[i] = s[j] => i = j

InjSeqsUpTo(S, n) == {s \in SeqsUpTo(S, n) : Injective(s)}

RECURSIVE Flatten(_)
Flatten(ss) == IF ss = <<>> THEN <<>> ELSE Head(ss) \o Flatten(Tail(ss))

\* A Python value that is None or a string (of characters)
NoStr == [t |-> "none", s |-> <<>>]
SomeStr(chars) == [t |-> "str", s |-> chars]

\* d.get(k) of a Python dict held as a function
DictGet(d, k) == IF k \in DOMAIN d THEN SomeStr(d[k]) ELSE NoStr

\* truth value of a None-or-string
TruthyStr(v) == v.t = "str" /\ v.s # <<>>

\* how an f-string or str.format renders a None-or-string
Format(v) == IF v.t = "none" THEN <<"N", "o", "n", "e">> ELSE v.s

-----------------------------------------------------------------------------
(* sanitize_filename *)

FILENAME_VALID_CHARS ==
    {"-", "_", ".", "(", ")", " ",
     "a", "b", "c", "d", "e", "f", "g", "h", "i", "j", "k", "l", "m",
     "n", "o", "p", "q", "r", "s", "t", "u", "v", "w", "x", "y", "z",
     "A", "B", "C", "D", "E", "F", "G", "H", "I", "J", "K", "L", "M",
     "N", "O", "P", "Q", "R", "S", "T", "U", "V", "W", "X", "Y", "Z",
     "0", "1", "2", "3", "4", "5", "6", "7", "8", "9"}

\* a variant that stops at the first character outside the allow-list
RECURSIVE sanitize_filename_Truncate(_)
sanitize_filename_Truncate(file_name) ==
    IF file_name = <<>> THEN <<>>
    ELSE IF Head(file_name) \in FILENAME_VALID_CHARS
         THEN <<Head(file_name)>> \o sanitize_filename_Truncate(Tail(file_name))
         ELSE <<>>

RECURSIVE sanitize_filename(_)
sanitize_filename(file_name) ==
    IF file_name = <<>> THEN <<>>
    ELSE IF Head(file_name) \in FILENAME_VALID_CHARS
         THEN <<Head(file_name)>> \o sanitize_filename(Tail(file_name))
         ELSE sanitize_filename(Tail(file_name))

-----------------------------------------------------------------------------
(* int(val) on a string, and is_int *)

Digits == {"0", "1", "2", "3", "4", "5", "6", "7", "8", "9"}

DigitVal(c) ==
    CASE c = "0" -> 0 [] c = "1" -> 1 [] c = "2" -> 2 [] c = "3" -> 3 [] c = "4" -> 4
      [] c = "5" -> 5 [] c = "6" -> 6 [] c = "7" -> 7 [] c = "8" -> 8 [] c = "9" -> 9

RECURSIVE StripLeft(_)
StripLeft(s) == IF s # <<>> /\ Head(s) = " " THEN StripLeft(Tail(s)) ELSE s

RECURSIVE StripRight(_)
StripRight(s) ==
    IF s # <<>> /\ s[Len(s)] = " " THEN StripRight(SubSeq(s, 1, Len(s) - 1)) ELSE s

Strip(s) == StripRight(StripLeft(s))

\* digits, with single underscores allowed between two digits
RECURSIVE IsDigitString(_)
IsDigitString(s) ==
    /\ s # <<>>
    /\ Head(s) \in Digits
    /\ \/ Len(s) = 1
       \/ IsDigitString(Tail(s))
       \/ /\ Len(s) >= 3
          /\ s[2] = "_"
          /\ IsDigitString(SubSeq(s, 3, Len(s)))

RECURSIVE DigitsValue(_, _)
DigitsValue(s, acc) ==
    IF s = <<>> THEN acc
    ELSE IF Head(s) = "_" THEN DigitsValue(Tail(s), acc)
         ELSE DigitsValue(Tail(s), 10 * acc + DigitVal(Head(s)))

Signed(s) == s # <<>> /\ Head(s) \in {"+", "-"}

Unsigned(s) == IF Signed(s) THEN Tail(s) ELSE s

\* int(val) raises ValueError exactly when this is FALSE
IntParses(val) == IsDigitString(Unsigned(Strip(val)))

\* int(val), where it parses
IntOf(val) ==
    LET body == Strip(val)
        mag  == DigitsValue(Unsigned(body), 0)
    IN  IF Signed(body) /\ Head(body) = "-" THEN 0 - mag ELSE mag

is_int(val) == IntParses(val)

-----------------------------------------------------------------------------
(* screenshot_page *)

PyStr(s) == [t |-> "str", s |-> s]
PyInt(s) == [t |-> "int", s |-> s]

\* str.lower() on the wait strategies the model passes
Lower(s) ==
    CASE s = "Time" -> "time"
      [] s = "CLASS" -> "class"
      [] s = "Id" -> "id"
      [] OTHER -> s

Event(op, s, n) == [op |-> op, s |-> s, n |-> n]

Ops(log) == [i \in 1..Len(log) |-> log[i].op]

Count(log, op) == Cardinality({i \in 1..Len(log) : log[i].op = op})

TimeoutWarning(load_wait) == <<Event("warning", "TimeoutException", load_wait)>>

\* The try block: load the page, then wait.  dom.get and dom.marker are what the
\* browser does: whether the load times out, whether the marker shows up in time.
TryBlock(page_uri, waitfor, waitfor_value, load_wait, dom) ==
    LET get == <<Event("get", page_uri, 0)>>
        w   == Lower(waitfor.s)
    IN  IF dom.get = "timeout"
        THEN [log |-> get \o TimeoutWarning(load_wait), raised |-> None]
        ELSE IF waitfor.t # "str" THEN [log |-> get, raised |-> None]
        ELSE IF w \in {"class", "id"}
             THEN [log |-> get \o <<Event("wait", w, load_wait)>>
                           \o (IF dom.marker THEN <<>> ELSE TimeoutWarning(load_wait)),
                   raised |-> None]
        ELSE IF w = "time" /\ is_int(waitfor_value)
             THEN IF IntOf(waitfor_value) < 0
                  \* time.sleep raises ValueError on a negative length
                  THEN [log |-> get, raised |-> "ValueError"]
                  ELSE [log |-> get \o <<Event("sleep", "time", IntOf(waitfor_value))>>,
                        raised |-> None]
        ELSE [log |-> get, raised |-> None]

\* One best-effort click: find_elements_by_xpath(xpath)[0].click()
ClickOnce(xpath, hit) ==
    IF xpath = None THEN [log |-> <<>>, requested |-> 0, succeeded |-> 0]
    ELSE IF hit
         THEN [log |-> <<Event("find", xpath, 0), Event("click", xpath, 0)>>,
               requested |-> 1, succeeded |-> 1]
         ELSE [log |-> <<Event("find", xpath, 0)>>, requested |-> 1, succeeded |-> 0]

\* Python truth value of a click target
Truthy(x) == x # None /\ x # ""

\* both clicks under one try: a miss on the first skips the second
ClickPhase_OneTry(click_xpath, click_xpath2, dom) ==
    LET c1 == ClickOnce(click_xpath, dom.hit1)
        c2 == IF click_xpath # None /\ ~dom.hit1
              THEN [log |-> <<>>, requested |-> 0, succeeded |-> 0]
              ELSE ClickOnce(click_xpath2, dom.hit2)
        succeeded == c1.succeeded + c2.succeeded
        requested == c1.requested + c2.requested
    IN  [log |-> <<Event("implicitly_wait", "driver", 0)>> \o c1.log \o c2.log
                 \o (IF Truthy(click_xpath) \/ Truthy(click_xpath2)
                     THEN <<Event("print_click", succeeded, requested)>> ELSE <<>>)
                 \o <<Event("implicitly_wait", "driver", DEFAULT_IMPLICIT_WAIT)>>,
         click_succeeded |-> succeeded,
         click_requested |-> requested]

ClickPhase(click_xpath, click_xpath2, dom) ==
    LET c1 == ClickOnce(click_xpath, dom.hit1)
        c2 == ClickOnce(click_xpath2, dom.hit2)
        succeeded == c1.succeeded + c2.succeeded
        requested == c1.requested + c2.requested
    IN  [log |-> <<Event("implicitly_wait", "driver", 0)>> \o c1.log \o c2.log
                 \o (IF Truthy(click_xpath) \/ Truthy(click_xpath2)
                     THEN <<Event("print_click", succeeded, requested)>> ELSE <<>>)
                 \o <<Event("implicitly_wait", "driver", DEFAULT_IMPLICIT_WAIT)>>,
         click_succeeded |-> succeeded,
         click_requested |-> requested]

screenshot_page(page_uri, output_filename, waitfor, waitfor_value, click_xpath, click_xpath2, load_wait, load_tweak_delay, dom) ==
    LET try == TryBlock(page_uri, waitfor, waitfor_value, load_wait, dom)
        clk == ClickPhase(click_xpath, click_xpath2, dom)
    IN  IF try.raised # None
        THEN [log |-> try.log, raised |-> try.raised,
              click_succeeded |-> 0, click_requested |-> 0]
        ELSE [log |-> try.log \o clk.log
                      \o <<Event("sleep", "tweak", load_tweak_delay),
                           Event("screenshot", output_filename, 0)>>,
              raised |-> None,
              click_succeeded |-> clk.click_succeeded,
              click_requested |-> clk.click_requested]

\* What the browser can do during one call
Doms == [get : {"ok", "timeout"}, marker : BOOLEAN, hit1 : BOOLEAN, hit2 : BOOLEAN]

\* the same, with the answers a call never asks for left FALSE
DomsFor(click_xpath, click_xpath2) ==
    {d \in Doms : /\ d.get = "timeout" => ~d.marker
                  /\ click_xpath = None => ~d.hit1
                  /\ click_xpath2 = None => ~d.hit2}

-----------------------------------------------------------------------------
(* Specification SpecPage: one call of screenshot_page on drawn arguments *)

WaitFors == {PyStr("time"), PyStr("Time"), PyStr("class"), PyStr("CLASS"), PyStr("id"),
             PyStr("xpath"), PyInt("30")}
ValChars == {"-", "1", "2", "_", "x"}
WaitValues == SeqsUpTo(ValChars, MaxValLen)
PageUri == "uri"
OutFile == <<<<"out.png">>>>

PageArgs == [waitfor : WaitFors, waitfor_value : WaitValues,
             click_xpath : {None, "xpath1"}, click_xpath2 : {None, "xpath2"}]

NoResult == [log |-> <<>>, raised |-> None, click_succeeded |-> 0, click_requested |-> 0]

ScriptIdle ==
    /\ pc = "idle" /\ env = <<>> /\ argv = <<>> /\ exit_code = "running"
    /\ exception = None /\ ci = <<>> /\ loaded_config = <<>> /\ sites_n2id = <<>>
    /\ elements_n2id = <<>> /\ sites_dict = <<>> /\ api_calls = <<>> /\ driver = <<>>
    /\ dirs = {} /\ files = {} /\ opens = <<>> /\ captures = {}
    /\ markdown_index = <<>> /\ markdown_site_info = <<>> /\ markdown_element_info = <<>>
    /\ interfaces_unsorted = <<>> /\ interfaces_cache = <<>> /\ si = 0 /\ ei = 0 /\ page = 0 /\ ii = 0 /\ mi = 0 /\ me = 0

PageIdle == p_pc = "idle" /\ p_args = <<>> /\ p_dom = <<>> /\ p_res = NoResult

ReadmeIdle ==
    r_pc = "idle" /\ r_env = <<>> /\ r_element = <<>> /\ r_ci = <<>> /\ r_md = <<>>

SanitizeIdle == f_pc = "idle" /\ f_in = <<>> /\ f_out = <<>> /\ f_again = <<>>

InitPage ==
    /\ ScriptIdle
    /\ ReadmeIdle
    /\ SanitizeIdle
    /\ p_pc = "call"
    /\ p_args \in PageArgs
    /\ p_dom \in Doms
    /\ p_res = NoResult

CallScreenshotPage ==
    /\ p_pc = "call"
    /\ p_res' = screenshot_page(PageUri, OutFile, p_args.waitfor, p_args.waitfor_value,
                                p_args.click_xpath, p_args.click_xpath2,
                                DefaultLoadWait, DefaultTweakDelay, p_dom)
    /\ p_pc' = IF p_res'.raised = None THEN "returned" ELSE "raised"
    /\ UNCHANGED <<p_args, p_dom, scriptVars, readmeVars, sanitizeVars>>

NextPage == CallScreenshotPage

SpecPage == InitPage /\ [][NextPage]_vars

-----------------------------------------------------------------------------
(* Specification SpecSanitize: sanitize_filename on a drawn string, then on *)
(* its own result                                                           *)

\* characters inside the allow-list and outside it
NameChars == {"a", "Z", "0", "-", " ", "/", ":", "*"}
NameInputs == SeqsUpTo(NameChars, MaxNameLen)

InitSanitize ==
    /\ ScriptIdle
    /\ PageIdle
    /\ ReadmeIdle
    /\ f_pc = "call"
    /\ f_in \in NameInputs
    /\ f_out = <<>>
    /\ f_again = <<>>

SanitizeOnce ==
    /\ f_pc = "call"
    /\ f_out' = sanitize_filename(f_in)
    /\ f_pc' = "once"
    /\ UNCHANGED <<f_in, f_again, scriptVars, pageVars, readmeVars>>

SanitizeAgain ==
    /\ f_pc = "once"
    /\ f_again' = sanitize_filename(f_out)
    /\ f_pc' = "twice"
    /\ UNCHANGED <<f_in, f_out, scriptVars, pageVars, readmeVars>>

NextSanitize == SanitizeOnce \/ SanitizeAgain

SpecSanitize == InitSanitize /\ [][NextSanitize]_vars

-----------------------------------------------------------------------------
(* The file system *)

Seg(s) == <<s>>

NonEmptySeg(seg) == seg # <<>>

\* "a//b" and "a/b/" name the same thing as "a/b"
Norm(path) == SelectSeq(path, NonEmptySeg)

Parent(path) == SubSeq(path, 1, Len(path) - 1)

\* the working directory always exists
DirExists(ds, path) == Norm(path) = <<>> \/ Norm(path) \in ds

\* pathlib.Path(path).mkdir(parents=True, exist_ok=True)
Mkdir(ds, path) == ds \cup {SubSeq(Norm(path), 1, k) : k \in 1..Len(Norm(path))}

WriteFile(fs, path, content) ==
    {f \in fs : f.path # Norm(path)} \cup {[path |-> Norm(path), content |-> content]}

FilePaths(fs) == {f.path : f \in fs}

site_directory_of(site_fs_name) == <<Seg("screenshots"), site_fs_name>>

element_directory_of(site_fs_name, element_fs_name) ==
    site_directory_of(site_fs_name) \o <<element_fs_name>>

interface_directory_of(site_fs_name, element_fs_name) ==
    element_directory_of(site_fs_name, element_fs_name) \o <<Seg("interfaces")>>

-----------------------------------------------------------------------------
(* Inputs of the script *)

EnvVars == {"AUTH_TOKEN", "TRAVIS_BUILD_NUMBER", "TRAVIS_BUILD_WEB_URL", "TRAVIS_COMMIT",
            "BUILD_ID", "BUILD_URL", "GIT_COMMIT", "BUILD_NUMBER"}

EnvOf(names) == [n \in names |-> <<"v">>]

\* environments the script is started in
Envs == {EnvOf({}),
         EnvOf({"AUTH_TOKEN"}),
         EnvOf({"AUTH_TOKEN", "TRAVIS_BUILD_NUMBER", "TRAVIS_BUILD_WEB_URL", "TRAVIS_COMMIT"})}

Argvs == {<<"screenshot.py">>, <<"screenshot.py", "config.yml">>,
          <<"screenshot.py", "missing.yml">>, <<"screenshot.py", "config.yml", "extra">>}

\* the files open() can read
ReadableFiles == {"config.yml"}

SiteNames == {<<"a">>, <<"a", "/">>}
ElemNames == {<<"e">>, <<"f", ":">>}

\* a YAML "elements" mapping: element name -> element configuration, in file order
ElementConfigs == {[j \in 1..Len(names) |-> <<names[j], "cnf">>] :
                      names \in InjSeqsUpTo(ElemNames, MaxElems)}

\* a YAML "sites" mapping: site name -> site configuration, in file order
SiteConfigs ==
    UNION {[1..n -> [elements : ElementConfigs]] : n \in 0..MaxSites}

Configs == {[i \in 1..Len(names) |-> <<names[i], cnfs[i]>>] :
               <<names, cnfs>> \in {<<ns, cs>> \in InjSeqsUpTo(SiteNames, MaxSites) \X SiteConfigs :
                                       Len(ns) = Len(cs)}}

\* the name -> id mapping build_lookup_dict makes of what the API lists
SiteId(name) == <<"S">> \o name
ElemId(name) == <<"E">> \o name
SiteLookups == {[n \in known |-> SiteId(n)] : known \in SUBSET SiteNames}
ElemLookups == {[n \in known |-> ElemId(n)] : known \in SUBSET ElemNames}

\* the interfaces an element can have, in the order the API lists them; the API
\* lists the first n of them
IfaceCatalog == <<[id |-> "i1", name |-> <<"2">>], [id |-> "i2", name |-> <<"1", "/">>],
                  [id |-> "i3", name |-> <<"1">>], [id |-> "i4", name |-> <<"2">>]>>
IfaceListings == {SubSeq(IfaceCatalog, 1, n) : n \in 0..MaxIfaces}

-----------------------------------------------------------------------------
(* The start-up checks and the CI detection *)

EnvGet(e, k) == IF k \in DOMAIN e THEN SomeStr(e[k]) ELSE NoStr

\* lines 61-84, with the commit read even when no CI system is recognised
CIValues_CommitAlways(e) ==
    IF "TRAVIS_BUILD_NUMBER" \in DOMAIN e /\ "TRAVIS_BUILD_WEB_URL" \in DOMAIN e
    THEN [CI_SYSTEM |-> SomeStr(<<"Travis CI">>), CI_COMMIT |-> EnvGet(e, "TRAVIS_COMMIT"),
          CI_BUILD_ID |-> EnvGet(e, "TRAVIS_BUILD_NUMBER"),
          CI_BUILD_URL |-> EnvGet(e, "TRAVIS_BUILD_WEB_URL")]
    ELSE IF "BUILD_ID" \in DOMAIN e /\ "BUILD_URL" \in DOMAIN e
    THEN [CI_SYSTEM |-> SomeStr(<<"Jenkins">>), CI_COMMIT |-> EnvGet(e, "GIT_COMMIT"),
          CI_BUILD_ID |-> EnvGet(e, "BUILD_NUMBER"), CI_BUILD_URL |-> EnvGet(e, "BUILD_URL")]
    ELSE [CI_SYSTEM |-> NoStr, CI_COMMIT |-> EnvGet(e, "TRAVIS_COMMIT"),
          CI_BUILD_ID |-> NoStr, CI_BUILD_URL |-> NoStr]

\* lines 61-84
CIValues(e) ==
    IF "TRAVIS_BUILD_NUMBER" \in DOMAIN e /\ "TRAVIS_BUILD_WEB_URL" \in DOMAIN e
    THEN [CI_SYSTEM |-> SomeStr(<<"Travis CI">>), CI_COMMIT |-> EnvGet(e, "TRAVIS_COMMIT"),
          CI_BUILD_ID |-> EnvGet(e, "TRAVIS_BUILD_NUMBER"),
          CI_BUILD_URL |-> EnvGet(e, "TRAVIS_BUILD_WEB_URL")]
    ELSE IF "BUILD_ID" \in DOMAIN e /\ "BUILD_URL" \in DOMAIN e
    THEN [CI_SYSTEM |-> SomeStr(<<"Jenkins">>), CI_COMMIT |-> EnvGet(e, "GIT_COMMIT"),
          CI_BUILD_ID |-> EnvGet(e, "BUILD_NUMBER"), CI_BUILD_URL |-> EnvGet(e, "BUILD_URL")]
    ELSE [CI_SYSTEM |-> NoStr, CI_COMMIT |-> NoStr, CI_BUILD_ID |-> NoStr,
          CI_BUILD_URL |-> NoStr]

NoCI == [CI_SYSTEM |-> NoStr, CI_COMMIT |-> NoStr, CI_BUILD_ID |-> NoStr, CI_BUILD_URL |-> NoStr]

NoDriver == [state |-> "none", width |-> 0, height |-> 0, implicit_wait |-> 0]

NoSiteInfo == [name |-> <<>>, fs_name |-> <<>>, elements |-> <<>>]
NoElementInfo == [name |-> <<>>, fs_name |-> <<>>, interfaces |-> <<>>]

\* the script runs in a checkout that holds screenshots/ (with the topology README
\* the generated files link back to) and no earlier output
InitialDirs == {<<Seg("screenshots")>>}

Init ==
    /\ pc = "auth"
    /\ env \in Envs
    /\ argv \in Argvs
    /\ exit_code = "running"
    /\ exception = None
    /\ ci = NoCI
    /\ loaded_config = <<>>
    /\ sites_n2id = <<>>
    /\ elements_n2id = <<>>
    /\ sites_dict = <<>>
    /\ api_calls = <<>>
    /\ driver = NoDriver
    /\ dirs = InitialDirs
    /\ files = {}
    /\ opens = <<>>
    /\ captures = {}
    /\ markdown_index = <<>>
    /\ markdown_site_info = NoSiteInfo
    /\ markdown_element_info = NoElementInfo
    /\ interfaces_unsorted = <<>>
    /\ interfaces_cache = <<>>
    /\ si = 0 /\ ei = 0 /\ page = 0 /\ ii = 0 /\ mi = 0 /\ me = 0
    /\ PageIdle
    /\ ReadmeIdle
    /\ SanitizeIdle

\* sys.exit(1)
Exit1 == pc' = "exit" /\ exit_code' = "1"

\* lines 53-58
CheckAuthToken ==
    /\ pc = "auth"
    /\ IF "AUTH_TOKEN" \in DOMAIN env
       THEN pc' = "ci" /\ exit_code' = exit_code
       ELSE Exit1
    /\ UNCHANGED <<env, argv, exception, ci, loaded_config, sites_n2id, elements_n2id,
                   sites_dict, api_calls, driver, dirs, files, opens, captures,
                   markdown_index, markdown_site_info, markdown_element_info,
                   interfaces_unsorted, interfaces_cache, si, ei, page, ii, mi, me, harnessVars>>

\* lines 61-84
DetectCI ==
    /\ pc = "ci"
    /\ ci' = CIValues(env)
    /\ pc' = "args"
    /\ UNCHANGED <<env, argv, exit_code, exception, loaded_config, sites_n2id,
                   elements_n2id, sites_dict, api_calls, driver, dirs, files, opens,
                   captures, markdown_index, markdown_site_info,
                   markdown_element_info, interfaces_unsorted, interfaces_cache,
                   si, ei, page, ii, mi, me, harnessVars>>

\* lines 225-229, testing for too few arguments only
CheckArgs_TooFewOnly ==
    /\ pc = "args"
    /\ IF Len(argv) < 2
       THEN Exit1
       ELSE pc' = "open" /\ exit_code' = exit_code
    /\ UNCHANGED <<env, argv, exception, ci, loaded_config, sites_n2id, elements_n2id,
                   sites_dict, api_calls, driver, dirs, files, opens, captures,
                   markdown_index, markdown_site_info, markdown_element_info,
                   interfaces_unsorted, interfaces_cache, si, ei, page, ii, mi, me, harnessVars>>

\* lines 225-229
CheckArgs ==
    /\ pc = "args"
    /\ IF Len(argv) # 2
       THEN Exit1
       ELSE pc' = "open" /\ exit_code' = exit_code
    /\ UNCHANGED <<env, argv, exception, ci, loaded_config, sites_n2id, elements_n2id,
                   sites_dict, api_calls, driver, dirs, files, opens, captures,
                   markdown_index, markdown_site_info, markdown_element_info,
                   interfaces_unsorted, interfaces_cache, si, ei, page, ii, mi, me, harnessVars>>

\* lines 232-243: the file opens and parses to a configuration, or open() raises IOError
OpenConfig ==
    /\ pc = "open"
    /\ LET config_file == argv[2]
       IN  IF config_file \in ReadableFiles
           THEN /\ \E cfg \in Configs : loaded_config' = [sites |-> cfg]
                /\ pc' = "sdk"
                /\ exit_code' = exit_code
           ELSE /\ Exit1
                /\ loaded_config' = loaded_config
    /\ UNCHANGED <<env, argv, exception, ci, sites_n2id, elements_n2id,
                   sites_dict, api_calls, driver, dirs, files, opens, captures,
                   markdown_index, markdown_site_info, markdown_element_info,
                   interfaces_unsorted, interfaces_cache, si, ei, page, ii, mi, me, harnessVars>>

\* lines 246-250
ResolveIds ==
    /\ pc = "sdk"
    /\ sites_n2id' \in SiteLookups
    /\ elements_n2id' \in ElemLookups
    /\ api_calls' = api_calls \o <<"use_token", "get.sites", "get.elements">>
    /\ pc' = "dict"
    /\ UNCHANGED <<env, argv, exit_code, exception, ci, loaded_config,
                   sites_dict, driver, dirs, files, opens, captures,
                   markdown_index, markdown_site_info, markdown_element_info,
                   interfaces_unsorted, interfaces_cache, si, ei, page, ii, mi, me, harnessVars>>

-----------------------------------------------------------------------------
(* sites_dict *)

\* config_lower_version_get(config, key, ...): the mapping under that key, or an
\* empty one
ConfigGet(config, key) == IF key \in DOMAIN config THEN config[key] ELSE <<>>

\* d[k] = v on an insertion-ordered dict held as a sequence of <<key, value>>
RECURSIVE DictSet(_, _, _)
DictSet(d, k, v) ==
    IF d = <<>> THEN <<<<k, v>>>>
    ELSE IF Head(d)[1] = k THEN <<<<k, v>>>> \o Tail(d)
         ELSE <<Head(d)>> \o DictSet(Tail(d), k, v)

Keys(d) == [i \in 1..Len(d) |-> d[i][1]]

DictLookup(d, k) == d[CHOOSE i \in 1..Len(d) : d[i][1] = k][2]

\* lines 258-259, building the list at the front instead of the back
RECURSIVE ElementsList_Prepend(_, _)
ElementsList_Prepend(config_elements, elements_list) ==
    IF config_elements = <<>> THEN elements_list
    ELSE ElementsList_Prepend(Tail(config_elements), <<Head(config_elements)[1]>> \o elements_list)

\* lines 258-259
RECURSIVE ElementsList(_, _)
ElementsList(config_elements, elements_list) ==
    IF config_elements = <<>> THEN elements_list
    ELSE ElementsList(Tail(config_elements), Append(elements_list, Head(config_elements)[1]))

\* lines 254-261
RECURSIVE SitesDictLoop(_, _)
SitesDictLoop(config_sites, acc) ==
    IF config_sites = <<>> THEN acc
    ELSE LET site            == Head(config_sites)[1]
             config_site_cnf == Head(config_sites)[2]
             config_elements == ConfigGet(config_site_cnf, "elements")
         IN  SitesDictLoop(Tail(config_sites),
                           DictSet(acc, site, ElementsList(config_elements, <<>>)))

BuildSitesDict ==
    /\ pc = "dict"
    /\ sites_dict' = SitesDictLoop(ConfigGet(loaded_config, "sites"), <<>>)
    /\ pc' = "driver"
    /\ UNCHANGED <<env, argv, exit_code, exception, ci, loaded_config, sites_n2id,
                   elements_n2id, api_calls, driver, dirs, files, opens, captures,
                   markdown_index, markdown_site_info, markdown_element_info,
                   interfaces_unsorted, interfaces_cache, si, ei, page, ii, mi, me, harnessVars>>

-----------------------------------------------------------------------------
(* The browser and the capture loop *)

startVars == <<env, argv, ci, loaded_config, sites_n2id, elements_n2id, sites_dict>>

Region == <<"region">>

Uri(template, ids) == [template |-> template, region |-> Region, ids |-> ids]

XPATH_CLOSE_WHATS_NEW == "/html/body/div[1]/div[4]/div/div/img"
XPATH_1_INTERFACE_EXPANDS ==
    "/html/body/div[1]/section/div/div[2]/div/div/div[2]/div/div/div[3]/div/div/form/div[2]/div/div/div[1]/a"
XPATH_2_INTERFACE_EXPANDS ==
    "/html/body/div[1]/section/div/div[2]/div/div/div[2]/div/div/div[3]/div/div/form/div[3]/div/div/div[1]/a"

Token(s) == [k |-> "text", v |-> <<s>>]
Value(chars) == [k |-> "value", v |-> chars]

PngImage == <<Token("png")>>

\* A screenshot_page call of the script: every call waits for a class.  It sets
\* captures' and files'; the file is written when its directory exists
\* (get_screenshot_as_file returns False on IOError).  A timeout or a missed click
\* changes what is printed and nothing the script keeps.
Shoot(uri, filename, waitfor_value, click_xpath, click_xpath2, load_wait, load_tweak_delay, height, ds) ==
    \E dom \in DomsFor(click_xpath, click_xpath2) :
        LET res == screenshot_page(uri, Norm(filename), PyStr("class"), waitfor_value,
                                   click_xpath, click_xpath2, load_wait, load_tweak_delay, dom)
            shot == Count(res.log, "screenshot") = 1
        IN  /\ captures' = IF shot
                           THEN captures \cup {[file |-> Norm(filename), height |-> height,
                                                browser |-> driver'.state]}
                           ELSE captures
            /\ files' = IF shot /\ DirExists(ds, Parent(Norm(filename)))
                        THEN WriteFile(files, filename, PngImage)
                        ELSE files

\* lines 266-286
StartBrowser ==
    /\ pc = "driver"
    /\ driver' = [state |-> "open", width |-> WindowWidth, height |-> NormalHeight,
                  implicit_wait |-> DEFAULT_IMPLICIT_WAIT]
    /\ pc' = "map"
    /\ UNCHANGED <<startVars, exit_code, exception, api_calls, dirs, files, opens,
                   captures, markdown_index, markdown_site_info,
                   markdown_element_info, interfaces_unsorted, interfaces_cache,
                   si, ei, page, ii, mi, me, harnessVars>>

\* lines 292-301
TopologyShot ==
    /\ pc = "map"
    /\ driver' = driver
    /\ Shoot(Uri("UI_TOPOLOGY_PAGE", <<>>), <<Seg("screenshots"), Seg("map.png")>>,
             <<"leaflet-map-pane">>, XPATH_CLOSE_WHATS_NEW, None, DefaultLoadWait,
             MapTweakDelay, driver.height, dirs)
    /\ markdown_index' = <<>>
    /\ si' = 1
    /\ pc' = "site"
    /\ UNCHANGED <<startVars, exit_code, exception, api_calls, dirs, opens,
                   markdown_site_info, markdown_element_info, interfaces_unsorted,
                   interfaces_cache, ei, page, ii, mi, me, harnessVars>>

site_name == sites_dict[si][1]
elements_list == sites_dict[si][2]
site_id == DictGet(sites_n2id, site_name)
element_name == elements_list[ei]
element_id == DictGet(elements_n2id, element_name)

\* lines 304-309, leaving the loop (break) instead of going on (continue)
SkipSite_Break ==
    /\ pc = "site"
    /\ si <= Len(sites_dict)
    /\ site_id = NoStr
    /\ si' = Len(sites_dict) + 1
    /\ UNCHANGED <<startVars, pc, exit_code, exception, api_calls, driver, dirs, files,
                   opens, captures, markdown_index, markdown_site_info,
                   markdown_element_info, interfaces_unsorted, interfaces_cache,
                   ei, page, ii, mi, me, harnessVars>>

\* lines 304-309: a site the lookup does not know is skipped
SkipSite ==
    /\ pc = "site"
    /\ si <= Len(sites_dict)
    /\ site_id = NoStr
    /\ si' = si + 1
    /\ UNCHANGED <<startVars, pc, exit_code, exception, api_calls, driver, dirs, files,
                   opens, captures, markdown_index, markdown_site_info,
                   markdown_element_info, interfaces_unsorted, interfaces_cache,
                   ei, page, ii, mi, me, harnessVars>>

\* lines 304-325
BeginSite ==
    /\ pc = "site"
    /\ si <= Len(sites_dict)
    /\ site_id # NoStr
    /\ LET site_fs_name   == sanitize_filename(site_name)
           site_directory == site_directory_of(site_fs_name)
       IN  /\ dirs' = Mkdir(dirs, site_directory)
           /\ markdown_site_info' = [name |-> site_name, fs_name |-> site_fs_name,
                                     elements |-> <<>>]
           /\ driver' = driver
           /\ Shoot(Uri("UI_SITE_PAGE", <<site_id.s>>),
                    site_directory \o <<Seg("site-info.png")>>, <<"site-info">>,
                    None, None, DefaultLoadWait, DefaultTweakDelay, driver.height, dirs')
    /\ ei' = 1
    /\ pc' = "element"
    /\ UNCHANGED <<startVars, exit_code, exception, api_calls, opens, markdown_index,
                   markdown_element_info, interfaces_unsorted, interfaces_cache,
                   si, page, ii, mi, me, harnessVars>>

\* lines 327-333, leaving the loop (break) instead of going on (continue)
SkipElement_Break ==
    /\ pc = "element"
    /\ ei <= Len(elements_list)
    /\ element_id = NoStr
    /\ ei' = Len(elements_list) + 1
    /\ UNCHANGED <<startVars, pc, exit_code, exception, api_calls, driver, dirs, files,
                   opens, captures, markdown_index, markdown_site_info,
                   markdown_element_info, interfaces_unsorted, interfaces_cache,
                   si, page, ii, mi, me, harnessVars>>

\* lines 327-333: an element the lookup does not know is skipped
SkipElement ==
    /\ pc = "element"
    /\ ei <= Len(elements_list)
    /\ element_id = NoStr
    /\ ei' = ei + 1
    /\ UNCHANGED <<startVars, pc, exit_code, exception, api_calls, driver, dirs, files,
                   opens, captures, markdown_index, markdown_site_info,
                   markdown_element_info, interfaces_unsorted, interfaces_cache,
                   si, page, ii, mi, me, harnessVars>>

\* lines 327-341
BeginElement ==
    /\ pc = "element"
    /\ ei <= Len(elements_list)
    /\ element_id # NoStr
    /\ LET element_fs_name == sanitize_filename(element_name)
       IN  /\ dirs' = Mkdir(dirs, element_directory_of(markdown_site_info.fs_name,
                                                       element_fs_name))
           /\ markdown_element_info' = [name |-> element_name, fs_name |-> element_fs_name,
                                        interfaces |-> <<>>]
    /\ page' = 1
    /\ pc' = "page"
    /\ UNCHANGED <<startVars, exit_code, exception, api_calls, driver, files, opens,
                   captures, markdown_index, markdown_site_info, interfaces_unsorted,
                   interfaces_cache, si, ei, ii, mi, me, harnessVars>>

\* the element pages, in the order of lines 346-433
ElementPage(template, file, class, load_wait, tall) ==
    [template |-> template, file |-> file, class |-> class, load_wait |-> load_wait,
     tall |-> tall]

ElementPages == <<
    ElementPage("UI_ELEMENT_STATICROUTES", "static_routes.png", "static-routing-table",
                StaticRoutesLoadWait, FALSE),
    ElementPage("UI_ELEMENT_BASIC", "basic_info.png", "form-group", DefaultLoadWait, FALSE),
    ElementPage("UI_ELEMENT_BGPPEERS", "bgp_peers.png", "bgpPeersTable", DefaultLoadWait, FALSE),
    ElementPage("UI_ELEMENT_TOOLKIT", "device_toolkit.png", "form-group", DefaultLoadWait, FALSE),
    ElementPage("UI_ELEMENT_BGPROUTEMAPS", "bgp_route_maps.png", "routeMapsTable",
                DefaultLoadWait, FALSE),
    ElementPage("UI_ELEMENT_INTERFACES", "interfaces_summary.png", "interface_name-wrapper",
                DefaultLoadWait, TRUE),
    ElementPage("UI_ELEMENT_BGPPREFIXLISTS", "bgp_prefix_lists.png", "prefixListsTable",
                DefaultLoadWait, FALSE),
    ElementPage("UI_ELEMENT_SNMP", "snmp.png", "snmpAgentView", DefaultLoadWait, FALSE),
    ElementPage("UI_ELEMENT_BGPASPATHACL", "bgp_aspath_acl.png", "asPathListsTable",
                DefaultLoadWait, FALSE),
    ElementPage("UI_ELEMENT_SYSLOG", "syslog.png", "syslog-export-table", DefaultLoadWait, FALSE),
    ElementPage("UI_ELEMENT_BGPIPCOMMUNITYLISTS", "bgp_ip_community_lists.png",
                "ipCommunityListsTable", DefaultLoadWait, FALSE),
    ElementPage("UI_ELEMENT_NTP", "ntp.png", "ntp-servers-table", DefaultLoadWait, FALSE) >>

element_directory ==
    element_directory_of(markdown_site_info.fs_name, markdown_element_info.fs_name)

\* one of the twelve captures of lines 346-433; the interfaces summary is taken in a
\* taller window, set back afterwards
ShootElementPage ==
    /\ pc = "page"
    /\ page <= Len(ElementPages)
    /\ LET p == ElementPages[page]
       IN  /\ driver' = IF p.tall THEN [driver EXCEPT !.width = WindowWidth,
                                                      !.height = NormalHeight]
                        ELSE driver
           /\ Shoot(Uri(p.template, <<element_id.s>>), element_directory \o <<Seg(p.file)>>,
                    <<p.class>>, None, None, p.load_wait, DefaultTweakDelay,
                    IF p.tall THEN TallHeight ELSE driver.height, dirs)
    /\ page' = page + 1
    /\ pc' = IF page = Len(ElementPages) THEN "ifaces" ELSE "page"
    /\ UNCHANGED <<startVars, exit_code, exception, api_calls, dirs, opens,
                   markdown_index, markdown_site_info, markdown_element_info,
                   interfaces_unsorted, interfaces_cache, si, ei, ii, mi, me, harnessVars>>

\* code points of the characters interface names are made of
Ord(c) ==
    CASE c = "/" -> 47 [] c = "0" -> 48 [] c = "1" -> 49 [] c = "2" -> 50 [] c = "3" -> 51

\* a < b on Python strings
RECURSIVE StrLess(_, _)
StrLess(a, b) ==
    IF b = <<>> THEN FALSE
    ELSE IF a = <<>> THEN TRUE
    ELSE IF Head(a) = Head(b) THEN StrLess(Tail(a), Tail(b))
    ELSE Ord(Head(a)) < Ord(Head(b))

\* insert x after the last record whose name is not greater: a stable sort
RECURSIVE InsertByName(_, _)
InsertByName(sorted, x) ==
    IF sorted = <<>> THEN <<x>>
    ELSE IF StrLess(x.name, Head(sorted).name) THEN <<x>> \o sorted
         ELSE <<Head(sorted)>> \o InsertByName(Tail(sorted), x)

\* sorted(interfaces_unsorted, key=lambda iface: iface['name'])
RECURSIVE SortedByName(_)
SortedByName(records) ==
    IF records = <<>> THEN <<>>
    ELSE InsertByName(SortedByName(SubSeq(records, 1, Len(records) - 1)),
                      records[Len(records)])

\* line 472 and the step to the next element
EndElement(info) ==
    /\ markdown_site_info' = [markdown_site_info EXCEPT !.elements = Append(@, info)]
    /\ ei' = ei + 1
    /\ pc' = "element"

\* lines 436-445, and 472 when nothing is listed
ListInterfaces ==
    /\ pc = "ifaces"
    /\ \E listing \in IfaceListings : interfaces_unsorted' = listing
    /\ api_calls' = Append(api_calls, "get.interfaces")
    /\ IF Len(interfaces_unsorted') >= 1
       THEN /\ interfaces_cache' = SortedByName(interfaces_unsorted')
            /\ dirs' = Mkdir(dirs, element_directory \o <<Seg("interfaces")>>)
            /\ driver' = [driver EXCEPT !.width = WindowWidth, !.height = TallHeight]
            /\ ii' = 1
            /\ pc' = "iface"
            /\ UNCHANGED <<markdown_site_info, ei>>
       ELSE /\ EndElement(markdown_element_info)
            /\ UNCHANGED <<interfaces_cache, dirs, driver, ii>>
    /\ UNCHANGED <<startVars, exit_code, exception, files, opens, captures,
                   markdown_index, markdown_element_info, si, page, mi, me, harnessVars>>

\* a variant without the set_window_size(1920, 1080) of line 469
ShootInterface_NoRestore ==
    /\ pc = "iface"
    /\ ii <= Len(interfaces_cache)
    /\ LET interface_record  == interfaces_cache[ii]
           interface_fs_name == sanitize_filename(interface_record.name)
           info == [markdown_element_info EXCEPT !.interfaces =
                       Append(@, [name |-> interface_record.name,
                                  fs_name |-> interface_fs_name])]
           is_last == ii = Len(interfaces_cache)
       IN  /\ driver' = driver
           /\ Shoot(Uri("UI_INTERFACES_DETAIL", <<element_id.s, <<interface_record.id>>>>),
                    element_directory \o <<Seg("interfaces"), interface_fs_name \o <<".png">>>>,
                    <<"collapsible-form__toggle">>, XPATH_1_INTERFACE_EXPANDS,
                    XPATH_2_INTERFACE_EXPANDS, DefaultLoadWait, DefaultTweakDelay,
                    driver.height, dirs)
           /\ markdown_element_info' = info
           /\ ii' = ii + 1
           /\ IF is_last
              THEN EndElement(info)
              ELSE UNCHANGED <<markdown_site_info, ei, pc>>
    /\ UNCHANGED <<startVars, exit_code, exception, api_calls, dirs, opens,
                   markdown_index, interfaces_unsorted, interfaces_cache, si, page,
                   mi, me, harnessVars>>

\* lines 447-472: one interface; after the last one the window is set back and the
\* element record is saved
ShootInterface ==
    /\ pc = "iface"
    /\ ii <= Len(interfaces_cache)
    /\ LET interface_record  == interfaces_cache[ii]
           interface_fs_name == sanitize_filename(interface_record.name)
           info == [markdown_element_info EXCEPT !.interfaces =
                       Append(@, [name |-> interface_record.name,
                                  fs_name |-> interface_fs_name])]
           is_last == ii = Len(interfaces_cache)
       IN  /\ driver' = IF is_last
                        THEN [driver EXCEPT !.width = WindowWidth, !.height = NormalHeight]
                        ELSE driver
           /\ Shoot(Uri("UI_INTERFACES_DETAIL", <<element_id.s, <<interface_record.id>>>>),
                    element_directory \o <<Seg("interfaces"), interface_fs_name \o <<".png">>>>,
                    <<"collapsible-form__toggle">>, XPATH_1_INTERFACE_EXPANDS,
                    XPATH_2_INTERFACE_EXPANDS, DefaultLoadWait, DefaultTweakDelay,
                    driver.height, dirs)
           /\ markdown_element_info' = info
           /\ ii' = ii + 1
           /\ IF is_last
              THEN EndElement(info)
              ELSE UNCHANGED <<markdown_site_info, ei, pc>>
    /\ UNCHANGED <<startVars, exit_code, exception, api_calls, dirs, opens,
                   markdown_index, interfaces_unsorted, interfaces_cache, si, page,
                   mi, me, harnessVars>>

\* a variant with driver.close() inside the site loop
EndSite_ClosesBrowser ==
    /\ pc = "element"
    /\ ei > Len(elements_list)
    /\ markdown_index' = Append(markdown_index, markdown_site_info)
    /\ driver' = [driver EXCEPT !.state = "closed"]
    /\ si' = si + 1
    /\ pc' = "site"
    /\ UNCHANGED <<startVars, exit_code, exception, api_calls, dirs, files, opens,
                   captures, markdown_site_info, markdown_element_info,
                   interfaces_unsorted, interfaces_cache, ei, page, ii, mi, me, harnessVars>>

\* line 475 and the step to the next site
EndSite ==
    /\ pc = "element"
    /\ ei > Len(elements_list)
    /\ markdown_index' = Append(markdown_index, markdown_site_info)
    /\ si' = si + 1
    /\ pc' = "site"
    /\ UNCHANGED <<startVars, exit_code, exception, api_calls, driver, dirs, files, opens,
                   captures, markdown_site_info, markdown_element_info,
                   interfaces_unsorted, interfaces_cache, ei, page, ii, mi, me, harnessVars>>

\* line 478
CloseBrowser ==
    /\ pc = "site"
    /\ si > Len(sites_dict)
    /\ driver' = [driver EXCEPT !.state = "closed"]
    /\ mi' = 1
    /\ me' = 1
    /\ pc' = "emit"
    /\ UNCHANGED <<startVars, exit_code, exception, api_calls, dirs, files, opens,
                   captures, markdown_index, markdown_site_info,
                   markdown_element_info, interfaces_unsorted, interfaces_cache,
                   si, ei, page, ii, harnessVars>>

-----------------------------------------------------------------------------
(* The Markdown emitter *)

\* the commit and job lines, each only when its value is truthy, always emitted
CiLines_Always(c) ==
    <<Token("commit: "), Value(Format(c.CI_COMMIT))>>
    \o <<Value(Format(c.CI_SYSTEM)), Token(" job id: ["), Value(Format(c.CI_BUILD_ID)),
         Token("]("), Value(Format(c.CI_BUILD_URL)), Token(")")>>

\* lines 487-491, 503-507, 557-561: the commit line when CI_COMMIT is truthy, the
\* job line when CI_SYSTEM is
CiLines(c) ==
    (IF TruthyStr(c.CI_COMMIT)
     THEN <<Token("commit: "), Value(Format(c.CI_COMMIT))>> ELSE <<>>)
    \o (IF TruthyStr(c.CI_SYSTEM)
        THEN <<Value(Format(c.CI_SYSTEM)), Token(" job id: ["), Value(Format(c.CI_BUILD_ID)),
               Token("]("), Value(Format(c.CI_BUILD_URL)), Token(")")>>
        ELSE <<>>)

\* lines 486-498
SiteReadmeHead(site, c) ==
    <<Token("## Site: "), Value(site.name)>> \o CiLines(c)
    \o <<Token("[Back To Topology](../README.md) site-info.png ### Elements <ul>")>>

\* lines 589-593
SiteReadmeItem(element) ==
    <<Token("<li><A href="), Value(element.fs_name), Token("/README.md>"),
      Value(element.name), Token("</A></li>")>>

\* lines 486-598
SiteReadme(site, c) ==
    SiteReadmeHead(site, c)
    \o Flatten([j \in 1..Len(site.elements) |-> SiteReadmeItem(site.elements[j])])
    \o <<Token("</ul>")>>

\* lines 509-552: the fixed part of an element README
ElementReadmeBody ==
    "[Back To Site](../README.md) ### Interfaces interfaces/README.md ... ### NTP ntp.png"

\* lines 502-552
ElementReadme(element, c) ==
    <<Token("## Element: "), Value(element.name)>> \o CiLines(c)
    \o <<Token(ElementReadmeBody)>>

\* lines 570-574
InterfaceReadmeItem(interface) ==
    <<Token("### "), Value(interface.name), Token("<img src="), Value(interface.fs_name),
      Token(".png?raw=1>")>>

\* lines 556-574
InterfaceReadme(element, c) ==
    <<Token("## Element: "), Value(element.name), Token(" Interfaces")>> \o CiLines(c)
    \o <<Token("[Back To Element](../README.md)")>>
    \o Flatten([k \in 1..Len(element.interfaces) |-> InterfaceReadmeItem(element.interfaces[k])])

site_readme_filename_of(site) == site_directory_of(site.fs_name) \o <<Seg("README.md")>>

element_readme_filename_of(site, element) ==
    element_directory_of(site.fs_name, element.fs_name) \o <<Seg("README.md")>>

interface_readme_filename_of(site, element) ==
    interface_directory_of(site.fs_name, element.fs_name) \o <<Seg("README.md")>>

\* open(path, 'w') raises FileNotFoundError when the directory is missing
Raise(name) == pc' = "crashed" /\ exception' = name /\ exit_code' = "1"

\* lines 501-586: the interface README, then the element README
EmitElement ==
    /\ pc = "emit"
    /\ mi <= Len(markdown_index)
    /\ me <= Len(markdown_index[mi].elements)
    /\ LET site    == markdown_index[mi]
           element == site.elements[me]
           interface_readme_filename == interface_readme_filename_of(site, element)
           element_readme_filename   == element_readme_filename_of(site, element)
       IN  IF ~DirExists(dirs, Parent(Norm(interface_readme_filename)))
           THEN /\ opens' = Append(opens, Norm(interface_readme_filename))
                /\ Raise("FileNotFoundError")
                /\ UNCHANGED <<files, me>>
           ELSE IF ~DirExists(dirs, Parent(Norm(element_readme_filename)))
           THEN /\ opens' = opens \o <<Norm(interface_readme_filename),
                                       Norm(element_readme_filename)>>
                /\ files' = WriteFile(files, interface_readme_filename,
                                      InterfaceReadme(element, ci))
                /\ Raise("FileNotFoundError")
                /\ UNCHANGED me
           ELSE /\ opens' = opens \o <<Norm(interface_readme_filename),
                                       Norm(element_readme_filename)>>
                /\ files' = WriteFile(WriteFile(files, interface_readme_filename,
                                                InterfaceReadme(element, ci)),
                                      element_readme_filename, ElementReadme(element, ci))
                /\ me' = me + 1
                /\ UNCHANGED <<pc, exception, exit_code>>
    /\ UNCHANGED <<startVars, api_calls, driver, dirs, captures, markdown_index,
                   markdown_site_info, markdown_element_info, interfaces_unsorted,
                   interfaces_cache, si, ei, page, ii, mi, harnessVars>>

\* lines 596-603
EmitSite ==
    /\ pc = "emit"
    /\ mi <= Len(markdown_index)
    /\ me > Len(markdown_index[mi].elements)
    /\ LET site == markdown_index[mi]
           site_readme_filename == site_readme_filename_of(site)
       IN  /\ opens' = Append(opens, Norm(site_readme_filename))
           /\ IF DirExists(dirs, Parent(Norm(site_readme_filename)))
              THEN /\ files' = WriteFile(files, site_readme_filename, SiteReadme(site, ci))
                   /\ mi' = mi + 1
                   /\ me' = 1
                   /\ UNCHANGED <<pc, exception, exit_code>>
              ELSE /\ Raise("FileNotFoundError")
                   /\ UNCHANGED <<files, mi, me>>
    /\ UNCHANGED <<startVars, api_calls, driver, dirs, captures, markdown_index,
                   markdown_site_info, markdown_element_info, interfaces_unsorted,
                   interfaces_cache, si, ei, page, ii, harnessVars>>

\* lines 606-607: the completion message
Finish ==
    /\ pc = "emit"
    /\ mi > Len(markdown_index)
    /\ pc' = "done"
    /\ exit_code' = "0"
    /\ UNCHANGED <<startVars, exception, api_calls, driver, dirs, files, opens, captures, markdown_index, markdown_site_info, markdown_element_info,
                   interfaces_unsorted, interfaces_cache, si, ei, page, ii, mi, me, harnessVars>>

Next ==
    \/ CheckAuthToken
    \/ DetectCI
    \/ CheckArgs
    \/ OpenConfig
    \/ ResolveIds
    \/ BuildSitesDict
    \/ StartBrowser
    \/ TopologyShot
    \/ SkipSite
    \/ BeginSite
    \/ SkipElement
    \/ BeginElement
    \/ ShootElementPage
    \/ ListInterfaces
    \/ ShootInterface
    \/ EndSite
    \/ CloseBrowser
    \/ EmitElement
    \/ EmitSite
    \/ Finish

Spec == Init /\ [][Next]_vars

-----------------------------------------------------------------------------
(* Specification SpecReadme: the CI detection on a drawn environment, then the     *)
(* README of a drawn element                                                        *)

CIVars == EnvVars \ {"AUTH_TOKEN"}

\* every environment that holds AUTH_TOKEN: each CI variable unset, empty or set
ReadmeEnvs ==
    UNION {[names \cup {"AUTH_TOKEN"} -> {<<>>, <<"v">>}] : names \in SUBSET CIVars}

ReadmeElements ==
    {[name |-> n, fs_name |-> sanitize_filename(n), interfaces |-> <<>>] : n \in ElemNames}

InitReadme ==
    /\ ScriptIdle
    /\ PageIdle
    /\ SanitizeIdle
    /\ r_pc = "ci"
    /\ r_env \in ReadmeEnvs
    /\ r_element \in ReadmeElements
    /\ r_ci = NoCI
    /\ r_md = <<>>

\* lines 61-84
ReadmeDetectCI ==
    /\ r_pc = "ci"
    /\ r_ci' = CIValues(r_env)
    /\ r_pc' = "render"
    /\ UNCHANGED <<r_env, r_element, r_md, scriptVars, pageVars, sanitizeVars>>

\* lines 502-552
ReadmeRender ==
    /\ r_pc = "render"
    /\ r_md' = ElementReadme(r_element, r_ci)
    /\ r_pc' = "rendered"
    /\ UNCHANGED <<r_env, r_element, r_ci, scriptVars, pageVars, sanitizeVars>>

NextReadme == ReadmeDetectCI \/ ReadmeRender

SpecReadme == InitReadme /\ [][NextReadme]_vars

-----------------------------------------------------------------------------
(* Properties of screenshot_page, under SpecPage *)

Called == p_pc # "call"

TargetsGiven ==
    (IF p_args.click_xpath # None THEN 1 ELSE 0) + (IF p_args.click_xpath2 # None THEN 1 ELSE 0)

MarkerWait == p_args.waitfor.t = "str" /\ Lower(p_args.waitfor.s) \in {"class", "id"}

TimeWait == p_args.waitfor.t = "str" /\ Lower(p_args.waitfor.s) = "time"

MarkerWaitExpired == MarkerWait /\ p_dom.get = "ok" /\ ~p_dom.marker

EventsOf(log, op) == {i \in 1..Len(log) : log[i].op = op}

\* C4: when the DOM-marker wait times out the call still clicks, settles and takes
\* the screenshot; and every call loads the URL exactly once and takes exactly one
\* screenshot, to the given path.
C4_EveryCallLoadsOnceAndShootsOnce ==
    Called =>
        /\ Count(p_res.log, "get") = 1
        /\ Count(p_res.log, "screenshot") = 1
        /\ \A i \in EventsOf(p_res.log, "screenshot") : p_res.log[i].s = OutFile
        /\ MarkerWaitExpired =>
              /\ p_res.raised = None
              /\ Count(p_res.log, "warning") = 1
              /\ Count(p_res.log, "find") = TargetsGiven
              /\ \E i \in EventsOf(p_res.log, "sleep") : p_res.log[i].s = "tweak"

\* C5: with waitfor 'time', a wait value that int() accepts and no click target, a
\* call whose page load returns is exactly: load, sleep that many seconds, settle,
\* screenshot; nothing is raised.
C5_TimeWaitSleepsAndShoots ==
    (Called /\ TimeWait /\ is_int(p_args.waitfor_value) /\ p_dom.get = "ok"
        /\ p_args.click_xpath = None /\ p_args.click_xpath2 = None) =>
        /\ p_res.raised = None
        /\ Ops(p_res.log) = <<"get", "sleep", "implicitly_wait", "implicitly_wait",
                              "sleep", "screenshot">>
        /\ p_res.log[2].n = IntOf(p_args.waitfor_value)
        /\ p_res.log[6].s = OutFile

\* the same call, had the DOM answered differently to the click lookups
OtherDom(h1, h2) == [p_dom EXCEPT !.hit1 = h1, !.hit2 = h2]

ResultWith(dom) ==
    screenshot_page(PageUri, OutFile, p_args.waitfor, p_args.waitfor_value,
                    p_args.click_xpath, p_args.click_xpath2,
                    DefaultLoadWait, DefaultTweakDelay, dom)

FindsOf(log, xpath) == {i \in EventsOf(log, "find") : log[i].s = xpath}

\* C6: at most two click attempts, at most one per target given and none for a
\* target not given; whether a target is found changes neither the attempt on the
\* other target nor the screenshot; the counters printed are the clicks done and
\* the targets given, 0 <= done <= given <= 2.
C6_ClicksBestEffort ==
    Called =>
        /\ Count(p_res.log, "find") <= 2
        /\ Count(p_res.log, "find") <= TargetsGiven
        /\ \A x \in {"xpath1", "xpath2"} : Cardinality(FindsOf(p_res.log, x)) <= 1
        /\ p_res.raised = None => Count(p_res.log, "find") = TargetsGiven
        /\ \A h1, h2 \in BOOLEAN :
              LET other == ResultWith(OtherDom(h1, h2))
              IN  /\ Count(other.log, "find") = Count(p_res.log, "find")
                  /\ Count(other.log, "screenshot") = Count(p_res.log, "screenshot")
                  /\ other.raised = p_res.raised
        /\ \A i \in EventsOf(p_res.log, "print_click") :
              /\ p_res.log[i].s = Count(p_res.log, "click")
              /\ p_res.log[i].n = TargetsGiven
              /\ 0 <= p_res.log[i].s
              /\ p_res.log[i].s <= p_res.log[i].n
              /\ p_res.log[i].n <= 2
        /\ p_res.click_succeeded = Count(p_res.log, "click")
        /\ 0 <= p_res.click_succeeded
        /\ p_res.click_succeeded <= p_res.click_requested
        /\ p_res.click_requested <= 2

\* a call with two targets, the first missing and the second clicked, that still
\* took its screenshot
C6_Witness ==
    /\ p_pc = "returned"
    /\ p_args.click_xpath # None /\ p_args.click_xpath2 # None
    /\ ~p_dom.hit1 /\ p_dom.hit2
    /\ Count(p_res.log, "find") = 2
    /\ p_res.click_succeeded = 1 /\ p_res.click_requested = 2
    /\ Count(p_res.log, "screenshot") = 1

-----------------------------------------------------------------------------
(* Properties of the script, under Spec *)

AtSite == pc = "site" /\ si <= Len(sites_dict)

AtElement == pc = "element" /\ ei <= Len(elements_list)

\* the subsequence of names the lookup knows
RECURSIVE KnownOf(_, _)
KnownOf(names, lookup) ==
    IF names = <<>> THEN <<>>
    ELSE IF Head(names) \in DOMAIN lookup
         THEN <<Head(names)>> \o KnownOf(Tail(names), lookup)
         ELSE KnownOf(Tail(names), lookup)

NamesOf(records) == [i \in 1..Len(records) |-> records[i].name]

\* C1: at a configured site the lookup does not know, the loop makes no directory,
\* takes no capture, records nothing and goes on to the next site; when the loop is
\* over the index holds exactly the known sites, in configuration order.
C1_UnknownSiteSkipped ==
    [][ /\ (AtSite /\ site_name \notin DOMAIN sites_n2id) =>
              /\ dirs' = dirs
              /\ files' = files
              /\ captures' = captures
              /\ api_calls' = api_calls
              /\ markdown_index' = markdown_index
              /\ pc' = "site"
              /\ si' = si + 1
        /\ (pc = "site" /\ pc' = "emit") =>
              NamesOf(markdown_index') = KnownOf(Keys(sites_dict), sites_n2id) ]_vars

\* the loop is over; an unknown site came first and the known site after it was recorded
C1_Witness ==
    /\ pc = "emit"
    /\ Len(sites_dict) = 2
    /\ sites_dict[1][1] \notin DOMAIN sites_n2id
    /\ sites_dict[2][1] \in DOMAIN sites_n2id
    /\ NamesOf(markdown_index) = <<sites_dict[2][1]>>
    /\ \E c \in captures : c.file = site_directory_of(markdown_index[1].fs_name)
                                      \o <<Seg("site-info.png")>>

InterfaceReadmes(paths) ==
    {i \in 1..Len(paths) : /\ Len(paths[i]) >= 2
                           /\ paths[i][Len(paths[i])] = Seg("README.md")
                           /\ paths[i][Len(paths[i]) - 1] = Seg("interfaces")}

\* C2: for an element whose interface listing is empty, the capture loop makes no
\* directory, and the emitter opens no interfaces/README.md for that element.
C2_NoInterfacesNoReadme ==
    [][ /\ (pc = "ifaces" /\ interfaces_unsorted' = <<>>) => dirs' = dirs
        /\ (pc = "emit" /\ mi <= Len(markdown_index)
              /\ me <= Len(markdown_index[mi].elements)
              /\ markdown_index[mi].elements[me].interfaces = <<>>) =>
              InterfaceReadmes(opens') = InterfaceReadmes(opens) ]_vars

AllReadmes ==
    UNION {{Norm(site_readme_filename_of(markdown_index[i]))}
           \cup UNION {{Norm(element_readme_filename_of(markdown_index[i],
                                                        markdown_index[i].elements[j])),
                        Norm(interface_readme_filename_of(markdown_index[i],
                                                          markdown_index[i].elements[j]))} :
                       j \in 1..Len(markdown_index[i].elements)} :
           i \in 1..Len(markdown_index)}

PastStartUp == pc \notin {"auth", "ci", "args", "open", "exit"}

\* C3: past the start-up checks no exception ends the run, and the run that ends has
\* printed its completion message with the browser closed and every README written.
C3_NoExceptionPastStartUp ==
    PastStartUp =>
        /\ exception = None
        /\ pc # "crashed"
        /\ (pc # "done" => ENABLED Next)
        /\ pc = "done" => /\ driver.state = "closed"
                          /\ AllReadmes \subseteq FilePaths(files)

Untouched ==
    /\ api_calls = <<>>
    /\ driver = NoDriver
    /\ dirs = InitialDirs
    /\ files = {}
    /\ opens = <<>>
    /\ captures = {}

\* C7: a missing AUTH_TOKEN, an argument count other than one, and a configuration
\* file that does not open each end the run with exit code 1 at their check, and a
\* run ended that way has called no API, started no browser and written nothing.
C7_FatalStartUpExits ==
    [][ /\ (pc = "auth" /\ "AUTH_TOKEN" \notin DOMAIN env) => (pc' = "exit" /\ exit_code' = "1")
        /\ (pc = "args" /\ Len(argv) # 2) => (pc' = "exit" /\ exit_code' = "1")
        /\ (pc = "open" /\ argv[2] \notin ReadableFiles) => (pc' = "exit" /\ exit_code' = "1")
        /\ pc' = "exit" => (exit_code' = "1" /\ Untouched') ]_vars

\* a run with the token and one argument, ended because the file did not open
C7_Witness ==
    /\ pc = "exit" /\ exit_code = "1"
    /\ "AUTH_TOKEN" \in DOMAIN env
    /\ Len(argv) = 2
    /\ argv[2] \notin ReadableFiles
    /\ Untouched

\* C8: at a configured element the lookup does not know, the loop makes no directory,
\* takes no capture, records nothing and goes on to the next element; the site
\* record appended to the index holds exactly the known elements, in order.
C8_UnknownElementSkipped ==
    [][ /\ (AtElement /\ element_name \notin DOMAIN elements_n2id) =>
              /\ dirs' = dirs
              /\ files' = files
              /\ captures' = captures
              /\ api_calls' = api_calls
              /\ markdown_site_info' = markdown_site_info
              /\ markdown_index' = markdown_index
              /\ pc' = "element"
              /\ ei' = ei + 1
              /\ si' = si
        /\ (pc = "element" /\ pc' = "site") =>
              /\ markdown_index' = Append(markdown_index, markdown_site_info)
              /\ NamesOf(markdown_site_info.elements) = KnownOf(elements_list, elements_n2id)
        /\ (pc = "site" /\ pc' = "emit") =>
              NamesOf(markdown_index') = KnownOf(Keys(sites_dict), sites_n2id) ]_vars

\* the loop is over; a site whose first element is unknown and second known was
\* recorded with the second element only, and a site after it was recorded too
C8_Witness ==
    /\ pc = "emit"
    /\ Len(markdown_index) = 2
    /\ Len(sites_dict) = 2
    /\ Len(sites_dict[1][2]) = 2
    /\ sites_dict[1][2][1] \notin DOMAIN elements_n2id
    /\ sites_dict[1][2][2] \in DOMAIN elements_n2id
    /\ NamesOf(markdown_index[1].elements) = <<sites_dict[1][2][2]>>

ConfigSites == ConfigGet(loaded_config, "sites")

SitesDictBuilt == pc \notin {"auth", "ci", "args", "open", "sdk", "dict", "exit"}

\* C10: sites_dict has one entry per configured site, under the configured names, and
\* the entry of a site is the list of its configured element names in file order.
C10_SitesDictMirrorsConfig ==
    SitesDictBuilt =>
        /\ Len(sites_dict) = Len(ConfigSites)
        /\ Range(Keys(sites_dict)) = {ConfigSites[i][1] : i \in 1..Len(ConfigSites)}
        /\ \A i \in 1..Len(ConfigSites) :
              LET config_elements == ConfigSites[i][2].elements
                  entry == DictLookup(sites_dict, ConfigSites[i][1])
              IN  /\ Len(entry) = Len(config_elements)
                  /\ \A j \in 1..Len(config_elements) : entry[j] = config_elements[j][1]

\* sites_dict built from two sites, the first with two elements
C10_Witness ==
    /\ pc = "driver"
    /\ Len(ConfigSites) = 2
    /\ Len(ConfigSites[1][2].elements) = 2
    /\ Len(sites_dict) = 2
    /\ Len(sites_dict[1][2]) = 2

-----------------------------------------------------------------------------
(* Properties of the element README, under SpecReadme *)

TravisPair(e) == "TRAVIS_BUILD_NUMBER" \in DOMAIN e /\ "TRAVIS_BUILD_WEB_URL" \in DOMAIN e
JenkinsPair(e) == "BUILD_ID" \in DOMAIN e /\ "BUILD_URL" \in DOMAIN e

TokensOf(md) == {md[i] : i \in 1..Len(md)}

\* C9: with neither the Travis pair nor the Jenkins pair in the environment, the
\* element README is its title and its fixed body: no commit line, no job id line,
\* and no empty or None value.
C9_NoCINoBuildLines ==
    (r_pc = "rendered" /\ ~TravisPair(r_env) /\ ~JenkinsPair(r_env)) =>
        /\ Token("commit: ") \notin TokensOf(r_md)
        /\ Token(" job id: [") \notin TokensOf(r_md)
        /\ Value(<<>>) \notin TokensOf(r_md)
        /\ Value(Format(NoStr)) \notin TokensOf(r_md)
        /\ r_md = <<Token("## Element: "), Value(r_element.name), Token(ElementReadmeBody)>>

\* a README rendered where commit variables and half of each pair are set
C9_Witness ==
    /\ r_pc = "rendered"
    /\ ~TravisPair(r_env) /\ ~JenkinsPair(r_env)
    /\ {"TRAVIS_COMMIT", "GIT_COMMIT", "TRAVIS_BUILD_NUMBER", "BUILD_URL"} \subseteq DOMAIN r_env
    /\ r_env["TRAVIS_COMMIT"] # <<>>
    /\ Len(r_md) = 3

-----------------------------------------------------------------------------
(* Claims about sanitize_filename (specification SpecSanitize) *)

\* positions of the input whose character is in the allow-list
KeptPositions(name) == {i \in 1..Len(name) : name[i] \in FILENAME_VALID_CHARS}

\* the k-th smallest kept position
KthKept(name, k) ==
    CHOOSE i \in KeptPositions(name) : Cardinality({j \in KeptPositions(name) : j <= i}) = k

\* the input with exactly the characters outside the allow-list removed, order kept
IsInputFiltered(name, out) ==
    /\ Len(out) = Cardinality(KeptPositions(name))
    /\ \A k \in 1..Len(out) : out[k] = name[KthKept(name, k)]

\* C11: sanitize_filename returns its input with exactly the characters outside
\* FILENAME_VALID_CHARS removed, the remaining characters in their original
\* order, and applying it to its own result gives that result again.
C11_SanitizeFiltersAndIsIdempotent ==
    /\ f_pc \in {"once", "twice"} => IsInputFiltered(f_in, f_out)
    /\ f_pc = "twice" => f_again = f_out

\* a character outside the allow-list stood between two kept ones, and both
\* applications have run
C11_Witness ==
    /\ f_pc = "twice"
    /\ \E i, j, k \in 1..Len(f_in) :
           /\ i < j /\ j < k
           /\ f_in[i] \in FILENAME_VALID_CHARS
           /\ f_in[j] \notin FILENAME_VALID_CHARS
           /\ f_in[k] \in FILENAME_VALID_CHARS
    /\ f_out = <<f_in[1], f_in[3]>>

-----------------------------------------------------------------------------
(* Claims about the browser's lifetime (specification Spec) *)

\* a step that loads a page and asks for a screenshot: the topology map, a
\* site card, an element page or an interface page
CaptureStep ==
    \/ pc \in {"map", "page", "iface"}
    \/ pc = "site" /\ pc' = "element"
    \/ captures' # captures

\* a step of the emitter: it opens Markdown files for writing
MarkdownWriteStep == pc = "emit" \/ opens' # opens

\* webdriver.Chrome(...) of line 270
BrowserOpens ==
    /\ driver.state = "none" /\ driver'.state = "open"
    /\ captures = {} /\ opens = <<>>

\* driver.close() of line 478
BrowserCloses ==
    /\ driver.state = "open" /\ driver'.state = "closed"
    /\ pc = "site" /\ si > Len(sites_dict) /\ pc' = "emit"
    /\ opens = <<>>

\* C12: one browser is opened, used for every page load and screenshot, and
\* closed once, in the step that leaves the capture loop; every capture is on
\* the open browser and before the close, every Markdown write is after it.
C12_OneBrowserClosedAfterCaptures ==
    [][ /\ driver'.state # driver.state => (BrowserOpens \/ BrowserCloses)
        /\ CaptureStep => (driver.state = "open" /\ driver'.state = "open")
        /\ MarkdownWriteStep => (driver.state = "closed" /\ driver'.state = "closed")
        /\ \A c \in captures' : c.browser = "open"
        /\ pc' \in {"emit", "done", "crashed"} => driver'.state = "closed" ]_vars

\* the run ended after captures of two sites and Markdown writes, with the
\* browser closed
C12_Witness ==
    /\ pc = "done"
    /\ driver.state = "closed"
    /\ Len(markdown_index) = 2
    /\ Cardinality(captures) > 2
    /\ opens # <<>>

-----------------------------------------------------------------------------
(* Claims about the window size (specification Spec) *)

\* the captures of the interfaces summary and of the interface detail pages
IsInterfaceCapture(file) ==
    \/ file[Len(file)] = Seg("interfaces_summary.png")
    \/ Len(file) > 1 /\ file[Len(file) - 1] = Seg("interfaces")

\* C13: the window is 1920x2160 only for the interfaces summary and the
\* interface detail pages and is 1920x1080 otherwise: between captures it is
\* tall only inside the loop over an element's interfaces, and the topology
\* map, the site cards and the other element pages are all taken at 1080,
\* whatever was processed before them.
C13_TallWindowOnlyForInterfaces ==
    /\ driver.state # "none" =>
           /\ driver.width = WindowWidth
           /\ driver.height = (IF pc = "iface" THEN TallHeight ELSE NormalHeight)
    /\ \A c \in captures :
           c.height = (IF IsInterfaceCapture(c.file) THEN TallHeight ELSE NormalHeight)

\* the first page of a later element was captured at 1080 after another
\* element's interface pages were captured at 2160
C13_Witness ==
    /\ pc = "page" /\ page = 2
    /\ driver.height = NormalHeight
    /\ \E earlier \in captures :
           /\ Len(earlier.file) = 5
           /\ earlier.file[4] = Seg("interfaces")
           /\ earlier.height = TallHeight
           /\ SubSeq(earlier.file, 1, 3) # element_directory
    /\ [file |-> element_directory \o <<Seg(ElementPages[1].file)>>,
        height |-> NormalHeight, browser |-> "open"] \in captures

=============================================================================
